---- MODULE Spec2Model ----
(***************************************************************************)
(* Purchase Order API (purchase-order-system/backend/main.py).             *)
(*                                                                         *)
(* The purchase_orders table, the thirteen endpoints of the legacy, v1 and *)
(* v2 groups, the get_db session dependency, and a client that walks the   *)
(* v2 list with next_cursor.                                               *)
(*                                                                         *)
(* Conventions                                                             *)
(*  - Optional[T] is a sequence of length <= 1: None is <<>>, a value x is *)
(*    <<x>>.  A response body is Optional as well (204 has no body).       *)
(*  - A Float is counted in halves: unit_price 5 stands for 2.5.  Halves   *)
(*    and their products with small integers are exact in binary64, so the *)
(*    product quantity * unit_price is the integer product of the counts.  *)
(*  - Every handler runs its queries and its commit against one table      *)
(*    state: a handler is one step on the table.                           *)
(***************************************************************************)
EXTENDS Integers, Sequences, FiniteSets, TLC

VARIABLES
    table,     \* the rows of purchase_orders
    nextId,    \* the next value of the id sequence of the primary key
    pc,        \* per client: where its request stands
    kind,      \* per client: the route group of its current or last request
    held,      \* per client: sessions opened by get_db and not yet closed
    acq,       \* per client: sessions its current or last request acquired
    lastReq,   \* the request handled most recently
    lastResp,  \* the response to it
    issued,    \* the records that 201 responses returned, minus those a 204 ended
    deleted,   \* the ids for which a DELETE returned 204
    trav       \* the cursor traversal of the v2 list

vars == <<table, nextId, pc, kind, held, acq, lastReq, lastResp, issued, deleted, trav>>

\* ------------------------------------------------------------------ bounds

MaxId == 3          \* ids handed out by the sequence: 1..MaxId
MaxLimit == 2       \* limit and per_page are drawn from 1..MaxLimit (<= 100)
MaxPage == 3        \* page is drawn from 1..MaxPage

Clients == {"c1", "c2"}
Versions == {"legacy", "v1", "v2"}

\* ------------------------------------------------------------------ values

None == <<>>
Some(x) == <<x>>

Ids == 1 .. (MaxId + 1)                     \* path parameter order_id
Cursors == {None} \cup {Some(c) : c \in -1 .. MaxId}
Limits == 1 .. MaxLimit
Pages == 1 .. MaxPage

\* Request bodies (PurchaseOrderCreate); unit_price in halves.
Orders ==
    { [item_name |-> "Widget", order_date |-> "2024-01-01",
       delivery_date |-> "2024-01-10", quantity |-> 4, unit_price |-> 5],
      [item_name |-> "Bolt", order_date |-> "2024-02-01",
       delivery_date |-> "2024-02-03", quantity |-> 3, unit_price |-> 1] }

\* ------------------------------------------------------------------ queries

IdsOf(rows) == {r.id : r \in rows}

\* order_by(PurchaseOrder.id).all(): the rows as a list, ascending by id.
RECURSIVE OrderById(_)
OrderById(rows) ==
    IF rows = {} THEN <<>>
    ELSE LET m == CHOOSE r \in rows : \A s \in rows : r.id <= s.id
         IN <<m>> \o OrderById(rows \ {m})

\* .limit(n) and .offset(n) on an ordered result.
Limit(seq, n) == SubSeq(seq, 1, IF n < Len(seq) THEN n ELSE Len(seq))
Offset(seq, n) == SubSeq(seq, n + 1, Len(seq))

\* .filter(PurchaseOrder.id == order_id).first()
FirstById(rows, order_id) ==
    LET hit == {r \in rows : r.id = order_id}
    IN IF hit = {} THEN None ELSE Some(CHOOSE r \in hit : TRUE)

\* PurchaseOrderResponse built from a row's attributes.
ToResponse(row) ==
    [item_name |-> row.item_name, order_date |-> row.order_date,
     delivery_date |-> row.delivery_date, quantity |-> row.quantity,
     unit_price |-> row.unit_price, id |-> row.id,
     total_price |-> row.total_price]

ToResponses(seq) == [i \in 1 .. Len(seq) |-> ToResponse(seq[i])]

\* raise HTTPException(status_code=404, detail="Purchase order not found")
NotFound(tbl, nid) ==
    [status |-> 404, body |-> Some([detail |-> "Purchase order not found"]),
     table |-> tbl, nextId |-> nid, raised |-> TRUE]

Reply(code, b, tbl, nid) ==
    [status |-> code, body |-> b, table |-> tbl, nextId |-> nid, raised |-> FALSE]

\* ------------------------------------------------------------------ v1

get_purchase_orders_v1_floor(tbl, nid, page, per_page) ==
    LET offset == (page - 1) * per_page
        total == Cardinality(tbl)
        orders == Limit(Offset(OrderById(tbl), offset), per_page)
        total_pages == total \div per_page
    IN Reply(200, Some([data |-> ToResponses(orders), total |-> total,
                        page |-> page, per_page |-> per_page,
                        total_pages |-> total_pages]), tbl, nid)

get_purchase_orders_v1(tbl, nid, page, per_page) ==
    LET offset == (page - 1) * per_page
        total == Cardinality(tbl)
        orders == Limit(Offset(OrderById(tbl), offset), per_page)
        total_pages == (total + per_page - 1) \div per_page
    IN Reply(200, Some([data |-> ToResponses(orders), total |-> total,
                        page |-> page, per_page |-> per_page,
                        total_pages |-> total_pages]), tbl, nid)

get_purchase_order_v1(tbl, nid, order_id) ==
    LET order == FirstById(tbl, order_id)
    IN IF order = None THEN NotFound(tbl, nid)
       ELSE Reply(200, Some(ToResponse(order[1])), tbl, nid)

create_purchase_order_v1_unit(tbl, nid, order) ==
    LET db_order == [id |-> nid, item_name |-> order.item_name,
                     order_date |-> order.order_date,
                     delivery_date |-> order.delivery_date,
                     quantity |-> order.quantity,
                     unit_price |-> order.unit_price,
                     total_price |-> order.unit_price]
    IN Reply(201, Some(ToResponse(db_order)), tbl \cup {db_order}, nid + 1)

create_purchase_order_v1(tbl, nid, order) ==
    LET total_price == order.quantity * order.unit_price
        db_order == [id |-> nid, item_name |-> order.item_name,
                     order_date |-> order.order_date,
                     delivery_date |-> order.delivery_date,
                     quantity |-> order.quantity,
                     unit_price |-> order.unit_price,
                     total_price |-> total_price]
    IN Reply(201, Some(ToResponse(db_order)), tbl \cup {db_order}, nid + 1)

delete_purchase_order_v1_always204(tbl, nid, order_id) ==
    LET order == FirstById(tbl, order_id)
    IN IF order = None THEN Reply(204, None, tbl, nid)
       ELSE Reply(204, None, tbl \ {order[1]}, nid)

delete_purchase_order_v1(tbl, nid, order_id) ==
    LET order == FirstById(tbl, order_id)
    IN IF order = None THEN NotFound(tbl, nid)
       ELSE Reply(204, None, tbl \ {order[1]}, nid)

\* ------------------------------------------------------------------ v2

get_purchase_orders_v2_inclusive(tbl, nid, cursor, limit) ==
    LET filtered == IF cursor # None THEN {r \in tbl : r.id >= cursor[1]} ELSE tbl
        fetched == Limit(OrderById(filtered), limit + 1)
        has_more == Len(fetched) > limit
        orders == IF has_more THEN SubSeq(fetched, 1, limit) ELSE fetched
        next_cursor == IF Len(orders) > 0 /\ has_more
                       THEN Some(orders[Len(orders)].id) ELSE None
    IN Reply(200, Some([data |-> ToResponses(orders), next_cursor |-> next_cursor,
                        has_more |-> has_more]), tbl, nid)

get_purchase_orders_v2_nolookahead(tbl, nid, cursor, limit) ==
    LET filtered == IF cursor # None THEN {r \in tbl : r.id > cursor[1]} ELSE tbl
        fetched == Limit(OrderById(filtered), limit)
        has_more == Len(fetched) > limit
        orders == IF has_more THEN SubSeq(fetched, 1, limit) ELSE fetched
        next_cursor == IF Len(orders) > 0 /\ has_more
                       THEN Some(orders[Len(orders)].id) ELSE None
    IN Reply(200, Some([data |-> ToResponses(orders), next_cursor |-> next_cursor,
                        has_more |-> has_more]), tbl, nid)

get_purchase_orders_v2_lookaheadanchor(tbl, nid, cursor, limit) ==
    LET filtered == IF cursor # None THEN {r \in tbl : r.id > cursor[1]} ELSE tbl
        fetched == Limit(OrderById(filtered), limit + 1)
        has_more == Len(fetched) > limit
        orders == IF has_more THEN SubSeq(fetched, 1, limit) ELSE fetched
        next_cursor == IF Len(orders) > 0 /\ has_more
                       THEN Some(fetched[Len(fetched)].id) ELSE None
    IN Reply(200, Some([data |-> ToResponses(orders), next_cursor |-> next_cursor,
                        has_more |-> has_more]), tbl, nid)

get_purchase_orders_v2(tbl, nid, cursor, limit) ==
    LET filtered == IF cursor # None THEN {r \in tbl : r.id > cursor[1]} ELSE tbl
        fetched == Limit(OrderById(filtered), limit + 1)
        has_more == Len(fetched) > limit
        orders == IF has_more THEN SubSeq(fetched, 1, limit) ELSE fetched
        next_cursor == IF Len(orders) > 0 /\ has_more
                       THEN Some(orders[Len(orders)].id) ELSE None
    IN Reply(200, Some([data |-> ToResponses(orders), next_cursor |-> next_cursor,
                        has_more |-> has_more]), tbl, nid)

get_purchase_order_v2_none(tbl, nid, order_id) ==
    LET order == FirstById(tbl, order_id)
    IN IF order = None THEN Reply(200, None, tbl, nid)
       ELSE Reply(200, Some(ToResponse(order[1])), tbl, nid)

get_purchase_order_v2(tbl, nid, order_id) ==
    LET order == FirstById(tbl, order_id)
    IN IF order = None THEN NotFound(tbl, nid)
       ELSE Reply(200, Some(ToResponse(order[1])), tbl, nid)

create_purchase_order_v2_zero(tbl, nid, order) ==
    LET db_order == [id |-> nid, item_name |-> order.item_name,
                     order_date |-> order.order_date,
                     delivery_date |-> order.delivery_date,
                     quantity |-> order.quantity,
                     unit_price |-> order.unit_price,
                     total_price |-> 0]
    IN Reply(201, Some(ToResponse(db_order)), tbl \cup {db_order}, nid + 1)

create_purchase_order_v2(tbl, nid, order) ==
    LET total_price == order.quantity * order.unit_price
        db_order == [id |-> nid, item_name |-> order.item_name,
                     order_date |-> order.order_date,
                     delivery_date |-> order.delivery_date,
                     quantity |-> order.quantity,
                     unit_price |-> order.unit_price,
                     total_price |-> total_price]
    IN Reply(201, Some(ToResponse(db_order)), tbl \cup {db_order}, nid + 1)

delete_purchase_order_v2_nocommit(tbl, nid, order_id) ==
    LET order == FirstById(tbl, order_id)
    IN IF order = None THEN NotFound(tbl, nid)
       ELSE Reply(204, None, tbl, nid)

delete_purchase_order_v2(tbl, nid, order_id) ==
    LET order == FirstById(tbl, order_id)
    IN IF order = None THEN NotFound(tbl, nid)
       ELSE Reply(204, None, tbl \ {order[1]}, nid)

\* ------------------------------------------------------------------ legacy

get_purchase_orders_legacy(tbl, nid, page, per_page) ==
    get_purchase_orders_v1(tbl, nid, page, per_page)

get_purchase_order_legacy(tbl, nid, order_id) ==
    get_purchase_order_v1(tbl, nid, order_id)

create_purchase_order_legacy(tbl, nid, order) ==
    create_purchase_order_v1(tbl, nid, order)

delete_purchase_order_legacy(tbl, nid, order_id) ==
    delete_purchase_order_v1(tbl, nid, order_id)

\* ------------------------------------------------------------------ root

read_root ==
    [status |-> 200, body |-> Some([message |-> "Purchase Order API"]),
     raised |-> FALSE]

\* ------------------------------------------------------------------ get_db

\* db = SessionLocal(); yield db
get_db_enter(open) == open + 1

get_db_exit_nofinally(open, outcome) ==
    IF outcome = "raised" THEN open ELSE open - 1

\* finally: db.close() -- runs when the handler returned and when it raised
get_db_exit(open, outcome) == open - 1

\* ------------------------------------------------------------------ state

TravIdle ==
    [phase |-> "idle", init |-> None, limit |-> 1, cursor |-> None,
     pages |-> <<>>, start |-> {}, live |-> {}, dirty |-> FALSE,
     anchorGone |-> FALSE]

Init ==
    /\ table = {}
    /\ nextId = 1
    /\ pc = [p \in Clients |-> "idle"]
    /\ kind = [p \in Clients |-> "none"]
    /\ held = [p \in Clients |-> 0]
    /\ acq = [p \in Clients |-> 0]
    /\ lastReq = [op |-> "none"]
    /\ lastResp = [status |-> 0, body |-> None]
    /\ issued = {}
    /\ deleted = {}
    /\ trav = TravIdle

\* ------------------------------------------------------------------ requests

\* GET /: no dependency on get_db; the request completes in one step.
ReadRoot(p) ==
    /\ pc[p] = "idle"
    /\ kind' = [kind EXCEPT ![p] = "root"]
    /\ acq' = [acq EXCEPT ![p] = 0]
    /\ lastReq' = [op |-> "root"]
    /\ lastResp' = [status |-> read_root.status, body |-> read_root.body]
    /\ UNCHANGED <<table, nextId, pc, held, issued, deleted, trav>>

\* A request to a purchase-order route: Depends(get_db) runs up to its yield.
Acquire(p) ==
    /\ pc[p] = "idle"
    /\ pc' = [pc EXCEPT ![p] = "yielded"]
    /\ kind' = [kind EXCEPT ![p] = "orders"]
    /\ held' = [held EXCEPT ![p] = get_db_enter(held[p])]
    /\ acq' = [acq EXCEPT ![p] = get_db_enter(0)]
    /\ UNCHANGED <<table, nextId, lastReq, lastResp, issued, deleted, trav>>

\* What the clients have seen: a 201 adds its record, a 204 ends the record of
\* the id it was asked to delete.
Issued(seen, rq, r) ==
    IF rq.op = "create" /\ r.status = 201 THEN seen \cup {r.body[1]}
    ELSE IF rq.op = "delete" /\ r.status = 204
         THEN {x \in seen : x.id # rq.order_id}
         ELSE seen

Deleted(gone, rq, r) ==
    IF rq.op = "delete" /\ r.status = 204 THEN gone \cup {rq.order_id} ELSE gone

\* The handler of the route runs with the yielded session: r is its result.
Respond(p, rq, r) ==
    /\ pc[p] = "yielded"
    /\ table' = r.table
    /\ nextId' = r.nextId
    /\ pc' = [pc EXCEPT ![p] = IF r.raised THEN "raised" ELSE "returned"]
    /\ lastReq' = rq
    /\ lastResp' = [status |-> r.status, body |-> r.body]
    /\ issued' = Issued(issued, rq, r)
    /\ deleted' = Deleted(deleted, rq, r)
    /\ UNCHANGED <<kind, held, acq, trav>>

GetOrdersV1(p) ==
    \E page \in Pages, per_page \in Limits :
        Respond(p, [op |-> "list", ver |-> "v1", page |-> page, per_page |-> per_page],
                get_purchase_orders_v1(table, nextId, page, per_page))

GetOrderV1(p) ==
    \E order_id \in Ids :
        Respond(p, [op |-> "get", ver |-> "v1", order_id |-> order_id],
                get_purchase_order_v1(table, nextId, order_id))

CreateOrderV1(p) ==
    \E order \in Orders :
        /\ nextId <= MaxId
        /\ Respond(p, [op |-> "create", ver |-> "v1", order |-> order],
                   create_purchase_order_v1(table, nextId, order))

DeleteOrderV1(p) ==
    \E order_id \in Ids :
        Respond(p, [op |-> "delete", ver |-> "v1", order_id |-> order_id],
                delete_purchase_order_v1(table, nextId, order_id))

GetOrdersV2(p) ==
    \E cursor \in Cursors, limit \in Limits :
        Respond(p, [op |-> "list", ver |-> "v2", cursor |-> cursor, limit |-> limit],
                get_purchase_orders_v2(table, nextId, cursor, limit))

GetOrderV2(p) ==
    \E order_id \in Ids :
        Respond(p, [op |-> "get", ver |-> "v2", order_id |-> order_id],
                get_purchase_order_v2(table, nextId, order_id))

CreateOrderV2(p) ==
    \E order \in Orders :
        /\ nextId <= MaxId
        /\ Respond(p, [op |-> "create", ver |-> "v2", order |-> order],
                   create_purchase_order_v2(table, nextId, order))

DeleteOrderV2(p) ==
    \E order_id \in Ids :
        Respond(p, [op |-> "delete", ver |-> "v2", order_id |-> order_id],
                delete_purchase_order_v2(table, nextId, order_id))

GetOrdersLegacy(p) ==
    \E page \in Pages, per_page \in Limits :
        Respond(p, [op |-> "list", ver |-> "legacy", page |-> page, per_page |-> per_page],
                get_purchase_orders_legacy(table, nextId, page, per_page))

GetOrderLegacy(p) ==
    \E order_id \in Ids :
        Respond(p, [op |-> "get", ver |-> "legacy", order_id |-> order_id],
                get_purchase_order_legacy(table, nextId, order_id))

CreateOrderLegacy(p) ==
    \E order \in Orders :
        /\ nextId <= MaxId
        /\ Respond(p, [op |-> "create", ver |-> "legacy", order |-> order],
                   create_purchase_order_legacy(table, nextId, order))

DeleteOrderLegacy(p) ==
    \E order_id \in Ids :
        Respond(p, [op |-> "delete", ver |-> "legacy", order_id |-> order_id],
                delete_purchase_order_legacy(table, nextId, order_id))

\* The response is out (or the exception is thrown into get_db): its finally runs.
Release(p) ==
    /\ pc[p] \in {"returned", "raised"}
    /\ held' = [held EXCEPT ![p] = get_db_exit(held[p], pc[p])]
    /\ pc' = [pc EXCEPT ![p] = "idle"]
    /\ UNCHANGED <<table, nextId, kind, acq, lastReq, lastResp, issued, deleted, trav>>

Step(p) ==
    \/ ReadRoot(p)
    \/ Acquire(p)
    \/ GetOrdersV1(p)
    \/ GetOrderV1(p)
    \/ CreateOrderV1(p)
    \/ DeleteOrderV1(p)
    \/ GetOrdersV2(p)
    \/ GetOrderV2(p)
    \/ CreateOrderV2(p)
    \/ DeleteOrderV2(p)
    \/ GetOrdersLegacy(p)
    \/ GetOrderLegacy(p)
    \/ CreateOrderLegacy(p)
    \/ DeleteOrderLegacy(p)
    \/ Release(p)

\* Any number of requests in flight at once (here: one per client).
Next == \E p \in Clients : Step(p)

Spec == Init /\ [][Next]_vars

\* One request at a time.  A handler is one step on the table, so the tables and
\* the request/response pairs of Spec are those of SpecSerial.
NextSerial == \E p \in {"c1"} : Step(p)

SpecSerial == Init /\ [][NextSerial]_vars

\* ------------------------------------------------------------------ traversal

\* A client walks GET /api/v2/purchase-orders: the first call passes its initial
\* cursor, each later call the next_cursor of the response before, until a
\* response has has_more = false.  Other clients create and delete in between.
\* trav.start is the table at the first call, trav.live the rows of it not deleted
\* since, trav.dirty whether the table changed during the walk, trav.anchorGone
\* whether the row a pending next_cursor names was deleted.

TravPage(t, r) ==
    [t EXCEPT !.phase = IF r.body[1].has_more THEN "running" ELSE "done",
              !.cursor = r.body[1].next_cursor,
              !.pages = t.pages \o r.body[1].data]

TravFirst ==
    \E cursor \in Cursors, limit \in Limits :
        LET r == get_purchase_orders_v2(table, nextId, cursor, limit)
        IN /\ trav.phase # "running"
           /\ trav' = TravPage([TravIdle EXCEPT !.init = cursor, !.limit = limit,
                                                !.start = table, !.live = table], r)
           /\ UNCHANGED <<table, nextId, pc, kind, held, acq, lastReq, lastResp, issued, deleted>>

TravNext ==
    LET r == get_purchase_orders_v2(table, nextId, trav.cursor, trav.limit)
    IN /\ trav.phase = "running"
       /\ trav' = TravPage(trav, r)
       /\ UNCHANGED <<table, nextId, pc, kind, held, acq, lastReq, lastResp, issued, deleted>>

create_purchase_order(ver, tbl, nid, order) ==
    CASE ver = "v1" -> create_purchase_order_v1(tbl, nid, order)
      [] ver = "v2" -> create_purchase_order_v2(tbl, nid, order)
      [] ver = "legacy" -> create_purchase_order_legacy(tbl, nid, order)

delete_purchase_order(ver, tbl, nid, order_id) ==
    CASE ver = "v1" -> delete_purchase_order_v1(tbl, nid, order_id)
      [] ver = "v2" -> delete_purchase_order_v2(tbl, nid, order_id)
      [] ver = "legacy" -> delete_purchase_order_legacy(tbl, nid, order_id)

TravCreate ==
    \E ver \in Versions, order \in Orders :
        LET r == create_purchase_order(ver, table, nextId, order)
        IN /\ nextId <= MaxId
           /\ table' = r.table
           /\ nextId' = r.nextId
           /\ trav' = IF trav.phase = "running"
                      THEN [trav EXCEPT !.dirty = TRUE] ELSE trav
           /\ UNCHANGED <<pc, kind, held, acq, lastReq, lastResp, issued, deleted>>

TravDelete ==
    \E ver \in Versions, order_id \in IdsOf(table) :
        LET r == delete_purchase_order(ver, table, nextId, order_id)
        IN /\ table' = r.table
           /\ nextId' = r.nextId
           /\ trav' = IF trav.phase = "running"
                      THEN [trav EXCEPT
                                !.dirty = TRUE,
                                !.live = {x \in trav.live : x \in r.table},
                                !.anchorGone = trav.anchorGone
                                               \/ trav.cursor = Some(order_id)]
                      ELSE trav
           /\ UNCHANGED <<pc, kind, held, acq, lastReq, lastResp, issued, deleted>>

NextTraversal ==
    \/ TravFirst
    \/ TravNext
    \/ TravCreate
    \/ TravDelete

SpecTraversal == Init /\ [][NextTraversal]_vars

\* ------------------------------------------------------------------ claims

\* A step in which some client's handler ran: lastReq' and lastResp' are its
\* request and response, table the rows it read, table' the rows it left.
Served == \E p \in Clients : pc[p] = "yielded" /\ pc'[p] \in {"returned", "raised"}

ServedOp(op) == Served /\ lastReq'.op = op

IsOffsetList(rq) == rq.op = "list" /\ rq.ver \in {"v1", "legacy"}
IsCursorList(rq) == rq.op = "list" /\ rq.ver = "v2"

\* The rows with id greater than the cursor: all rows when the cursor is absent.
After(rows, cursor) == {r \in rows : cursor = None \/ r.id > cursor[1]}

Increasing(seq) == \A i, j \in 1 .. Len(seq) : i < j => seq[i].id < seq[j].id

Range(seq) == {seq[i] : i \in 1 .. Len(seq)}

\* The least n with n * d >= a, for a >= 0 and d >= 1.
Ceil(a, d) == CHOOSE n \in 0 .. a : n * d >= a /\ (n = 0 \/ (n - 1) * d < a)

\* C1: a cursor traversal during which the table did not change, from any initial
\* cursor and with any limit, ends with the concatenated data being exactly the
\* rows with id greater than the initial cursor (all rows when it is absent), in
\* ascending id order, with no duplicates and no gaps.
C1_TraversalComplete ==
    (trav.phase = "done" /\ ~trav.dirty) =>
        /\ Increasing(trav.pages)
        /\ Range(trav.pages) = {ToResponse(r) : r \in After(trav.start, trav.init)}

C1_Witness ==
    /\ trav.phase = "done"
    /\ ~trav.dirty
    /\ trav.init # None
    /\ trav.limit = 1
    /\ Len(trav.pages) >= 2
    /\ After(trav.start, trav.init) # trav.start

C2_Step ==
    (Served /\ IsCursorList(lastReq')) =>
        LET m == After(table, lastReq'.cursor)
            b == lastResp'.body[1]
            n == Len(b.data)
        IN /\ lastResp'.status = 200
           /\ b.has_more = (Cardinality(m) > lastReq'.limit)
           /\ n <= lastReq'.limit
           /\ b.has_more => (n >= 1 /\ b.next_cursor = Some(b.data[n].id))
           /\ ~b.has_more => b.next_cursor = None
           /\ m = {} => (b.data = <<>> /\ b.next_cursor = None /\ ~b.has_more)

\* C2: one call of the v2 list: has_more is true exactly when more than limit rows
\* match the cursor filter, data holds at most limit rows, next_cursor is the id
\* of the last row of data when has_more and null otherwise; an empty result has
\* data = [], next_cursor = null, has_more = false.
C2_PageShape == [][C2_Step]_vars

C2_Witness ==
    /\ IsCursorList(lastReq)
    /\ lastReq.cursor # None
    /\ lastResp.body[1].has_more
    /\ Len(lastResp.body[1].data) = lastReq.limit
    /\ lastResp.body[1].next_cursor = Some(lastResp.body[1].data[lastReq.limit].id)

C3_Step ==
    (Served /\ IsOffsetList(lastReq')) =>
        LET total == Cardinality(table)
            b == lastResp'.body[1]
        IN /\ lastResp'.status = 200
           /\ b.total = total
           /\ b.total_pages = Ceil(total, lastReq'.per_page)
           /\ total = 0 => b.total_pages = 0
           /\ lastReq'.page > b.total_pages => b.data = <<>>

\* C3: the offset list of v1 and of legacy: total_pages = ceil(total / per_page),
\* 0 when total = 0, and a page beyond total_pages has empty data with the same
\* total and total_pages.
C3_OffsetPages == [][C3_Step]_vars

C3_Witness ==
    /\ IsOffsetList(lastReq)
    /\ lastReq.ver = "legacy"
    /\ lastResp.body[1].total = 1
    /\ lastReq.per_page = 2
    /\ lastResp.body[1].total_pages = 1
    /\ lastReq.page > lastResp.body[1].total_pages
    /\ lastResp.body[1].data = <<>>

C4_Step ==
    /\ ServedOp("delete") =>
           IF lastReq'.order_id \in IdsOf(table)
           THEN /\ lastResp'.status = 204
                /\ table' = {r \in table : r.id # lastReq'.order_id}
                /\ lastReq'.order_id \in deleted'
           ELSE /\ lastResp'.status = 404
                /\ table' = table
    /\ (ServedOp("delete") /\ lastReq'.order_id \in deleted) =>
           (lastResp'.status = 404 /\ table' = table)
    /\ ~ServedOp("create") => IdsOf(table') \subseteq IdsOf(table)

\* C4: under every version, DELETE on an id in the table answers 204 and removes
\* that row and no other; DELETE on an id that a DELETE already removed answers
\* 404 and leaves the table as it is; a step that is no create brings no id back.
C4_DeleteTwice == [][C4_Step]_vars

C4_Witness ==
    /\ lastReq.op = "delete"
    /\ lastReq.order_id \in deleted
    /\ lastResp.status = 404
    /\ table # {}

C5_Step ==
    (ServedOp("get") /\ lastReq'.order_id \notin IdsOf(table)) =>
        /\ lastResp'.status = 404
        /\ table' = table
        /\ nextId' = nextId

\* C5: under every version, the single-item GET of an id that is not in the table
\* answers 404 and changes nothing in the table.
C5_GetMissing == [][C5_Step]_vars

C5_Witness ==
    /\ lastReq.op = "get"
    /\ lastReq.ver = "v2"
    /\ lastReq.order_id \in deleted
    /\ lastResp.status = 404
    /\ table # {}

C6_RowConsistent(r) == r.total_price = r.quantity * r.unit_price

C6_Step ==
    /\ \A r \in table : r.id \in IdsOf(table') => r \in table'
    /\ \A r \in table' \ table :
           /\ ServedOp("create")
           /\ r.quantity = lastReq'.order.quantity
           /\ r.unit_price = lastReq'.order.unit_price
           /\ r.item_name = lastReq'.order.item_name
           /\ r.total_price = lastReq'.order.quantity * lastReq'.order.unit_price

\* C6: every stored row has total_price = quantity * unit_price, with the
\* quantity and unit_price of the create request that made it, and no step
\* changes a stored row: a row is in the table unchanged until it is deleted.
C6_TotalPrice == [](\A r \in table : C6_RowConsistent(r)) /\ [][C6_Step]_vars

C6_Witness ==
    /\ lastReq.op = "get"
    /\ lastResp.status = 200
    /\ lastResp.body[1].total_price = 20
    /\ \E r \in table : r.total_price = 3
    /\ deleted # {}

C7_Step ==
    /\ ServedOp("create") =>
           /\ lastResp'.status = 201
           /\ lastResp'.body[1].id \notin IdsOf(issued) \cup deleted
           /\ lastResp'.body[1].item_name = lastReq'.order.item_name
           /\ lastResp'.body[1].order_date = lastReq'.order.order_date
           /\ lastResp'.body[1].delivery_date = lastReq'.order.delivery_date
           /\ lastResp'.body[1].quantity = lastReq'.order.quantity
           /\ lastResp'.body[1].unit_price = lastReq'.order.unit_price
    /\ (ServedOp("get") /\ lastReq'.order_id \in IdsOf(issued)) =>
           /\ lastResp'.status = 200
           /\ lastResp'.body[1] \in issued
           /\ lastResp'.body[1].id = lastReq'.order_id
    /\ (ServedOp("get") /\ lastReq'.order_id \in deleted) =>
           lastResp'.status = 404
    /\ (ServedOp("delete") /\ lastReq'.order_id \in IdsOf(issued)) =>
           lastResp'.status = 204

\* C7: a create answers 201 with a record whose id was never assigned before;
\* until a DELETE on that id answers 204, GET on that id answers 200 with that
\* very record; after the 204, GET on that id answers 404.
C7_RoundTrip == [][C7_Step]_vars

C7_Witness ==
    /\ lastReq.op = "get"
    /\ lastResp.status = 200
    /\ lastResp.body[1] \in issued
    /\ lastResp.body[1].id = 2
    /\ 1 \in deleted

\* C8: on the same table and the same inputs, the single-item GET, the create and
\* the DELETE of legacy, v1 and v2 give the same response and the same table; the
\* legacy list gives the response of the v1 list.
C8_CrossVersion ==
    /\ \A order_id \in Ids :
           /\ get_purchase_order_v2(table, nextId, order_id)
                  = get_purchase_order_v1(table, nextId, order_id)
           /\ get_purchase_order_legacy(table, nextId, order_id)
                  = get_purchase_order_v1(table, nextId, order_id)
           /\ delete_purchase_order_v2(table, nextId, order_id)
                  = delete_purchase_order_v1(table, nextId, order_id)
           /\ delete_purchase_order_legacy(table, nextId, order_id)
                  = delete_purchase_order_v1(table, nextId, order_id)
    /\ \A order \in Orders :
           /\ create_purchase_order_v2(table, nextId, order)
                  = create_purchase_order_v1(table, nextId, order)
           /\ create_purchase_order_legacy(table, nextId, order)
                  = create_purchase_order_v1(table, nextId, order)
    /\ \A page \in Pages, per_page \in Limits :
           get_purchase_orders_legacy(table, nextId, page, per_page)
               = get_purchase_orders_v1(table, nextId, page, per_page)

C8_Witness ==
    /\ Cardinality(table) >= 2
    /\ deleted # {}
    /\ lastReq.op = "delete"
    /\ lastReq.ver = "v2"
    /\ lastResp.status = 204

\* C9 as stated: every request acquires exactly one session through get_db, which
\* is closed when the request completes, whether its handler returned or raised.
C9_EveryRequest ==
    \A p \in Clients :
        /\ pc[p] # "idle" => (held[p] = 1 /\ acq[p] = 1)
        /\ pc[p] = "idle" => held[p] = 0
        /\ (pc[p] = "idle" /\ kind[p] # "none") => acq[p] = 1

\* C9 amended: every request to a purchase-order route acquires exactly one
\* session through get_db, open while the request is in flight and closed when it
\* completes, whether its handler returned or raised 404; GET / acquires none.
C9_OrderRequests ==
    \A p \in Clients :
        /\ pc[p] # "idle" => (kind[p] = "orders" /\ held[p] = 1 /\ acq[p] = 1)
        /\ pc[p] = "idle" => held[p] = 0
        /\ kind[p] = "orders" => acq[p] = 1
        /\ kind[p] = "root" => acq[p] = 0

C9_Witness ==
    /\ pc["c1"] = "idle"
    /\ kind["c1"] = "orders"
    /\ lastResp.status = 404
    /\ pc["c2"] = "returned"
    /\ held["c1"] = 0
    /\ held["c2"] = 1

\* C10: a cursor traversal interleaved with creates and deletes of other clients:
\* the ids across the concatenated pages are strictly increasing, and a finished
\* traversal holds every row with id greater than the initial cursor that was
\* in the table from the first call to the last exactly once, also when the row
\* a next_cursor names was deleted between two calls.
C10_InterleavedTraversal ==
    /\ Increasing(trav.pages)
    /\ trav.phase = "done" =>
           \A r \in After(trav.live, trav.init) :
               Cardinality({i \in 1 .. Len(trav.pages) :
                                trav.pages[i] = ToResponse(r)}) = 1

C10_Witness ==
    /\ trav.phase = "done"
    /\ trav.anchorGone
    /\ Len(trav.pages) >= 2
    /\ \E r \in After(trav.live, trav.init) : ToResponse(r) \in Range(trav.pages)
    /\ \E i \in 1 .. Len(trav.pages) : trav.pages[i].id \notin IdsOf(trav.start)

====
